---- MODULE Spec2Model ----
(***************************************************************************)
(* Medical Report Simplifier: the processing pipeline of core/pipeline.py  *)
(* (process_medical_report), the line extractor and the normalization of   *)
(* core/parser.py, the OCR wrapper of core/extract.py, the summary of      *)
(* core/summarizer.py and the two HTTP endpoints of main.py.               *)
(*                                                                         *)
(* Text is a sequence of characters; a character is a one-letter string,   *)
(* except "NL" (newline), "TAB", "MICRO" (U+00B5) and "MU" (U+03BC).       *)
(* A number parsed by float() is kept as an exact decimal                  *)
(* [num |-> n, dec |-> d], standing for n / 10^d, with no trailing zero.   *)
(***************************************************************************)
EXTENDS Integers, Sequences, FiniteSets, TLC

VARIABLES
    invs,        \* the invocations of process_medical_report that run
    input,       \* input[i]: the arguments and the environment of invocation i
    pc,          \* pc[i]: the position of invocation i in the pipeline
    text,        \* text[i]: final_raw_text
    lines,       \* lines[i]: extraction_result
    tests,       \* tests[i]: normalization_result
    result,      \* result[i]: the value process_medical_report returns
    response,    \* response[i]: what the HTTP endpoint answers
    ran,         \* ran[i]: the stages of the try block invocation i entered
    catalog      \* the module-level MEDICAL_TESTS of core/knowledge_base.py

vars == <<invs, input, pc, text, lines, tests, result, response, ran, catalog>>

----------------------------------------------------------------------------
(* Characters and character classes of Python's re, restricted to the      *)
(* alphabet of the model.                                                  *)

LowerSeq == <<"a", "b", "c", "d", "e", "f", "g", "h", "i", "j", "k", "l", "m", "n", "o", "p", "q", "r", "s", "t", "u", "v", "w", "x", "y", "z">>
UpperSeq == <<"A", "B", "C", "D", "E", "F", "G", "H", "I", "J", "K", "L", "M", "N", "O", "P", "Q", "R", "S", "T", "U", "V", "W", "X", "Y", "Z">>
DigitSeq == <<"0", "1", "2", "3", "4", "5", "6", "7", "8", "9">>

Range(s) == {s[k] : k \in 1..Len(s)}

Lower == Range(LowerSeq)
Upper == Range(UpperSeq)
Letter == Lower \cup Upper
Digit == Range(DigitSeq)
\* \s
Space == {" ", "TAB", "NL"}
\* \w
Word == Letter \cup Digit \cup {"_", "MICRO", "MU"}

IndexOf(c, s) == CHOOSE k \in 1..Len(s) : s[k] = c

\* str.lower() on one character: the micro sign and the small mu are lowercase.
LowerChar(c) == IF c \in Upper THEN LowerSeq[IndexOf(c, UpperSeq)] ELSE c

\* str.lower()
ToLower(s) == [k \in 1..Len(s) |-> LowerChar(s[k])]

DigitVal(c) == IndexOf(c, DigitSeq) - 1

----------------------------------------------------------------------------
(* Sequence helpers standing for Python's str methods.                     *)

\* s[i:] starts with pat (i is 1-based)
StartsAt(s, pat, i) ==
    /\ i + Len(pat) - 1 <= Len(s)
    /\ \A k \in 1..Len(pat) : s[i + k - 1] = pat[k]

\* pat in s
Contains(s, pat) == \E i \in 1..(Len(s) + 1) : StartsAt(s, pat, i)

RECURSIVE ReplaceFrom(_, _, _, _)
ReplaceFrom(s, pat, rep, i) ==
    IF i > Len(s) THEN <<>>
    ELSE IF StartsAt(s, pat, i)
         THEN rep \o ReplaceFrom(s, pat, rep, i + Len(pat))
         ELSE <<s[i]>> \o ReplaceFrom(s, pat, rep, i + 1)

\* str.replace(pat, rep) for a non-empty pat: left to right, non-overlapping
Replace(s, pat, rep) == ReplaceFrom(s, pat, rep, 1)

RECURSIVE LStrip(_)
LStrip(s) == IF s # <<>> /\ Head(s) \in Space THEN LStrip(Tail(s)) ELSE s

RECURSIVE RStrip(_)
RStrip(s) ==
    IF s # <<>> /\ s[Len(s)] \in Space THEN RStrip(SubSeq(s, 1, Len(s) - 1)) ELSE s

\* str.strip()
Strip(s) == RStrip(LStrip(s))

\* The end (exclusive) of the longest run of characters of class cls that
\* starts at position i: a greedy cls* of re.
RECURSIVE RunEnd(_, _, _)
RunEnd(s, i, cls) ==
    IF i <= Len(s) /\ s[i] \in cls THEN RunEnd(s, i + 1, cls) ELSE i

\* The character at position i, or "" past the end.
At(s, i) == IF i >= 1 /\ i <= Len(s) THEN s[i] ELSE ""

\* sep.join(parts)
RECURSIVE Join(_, _)
Join(parts, sep) ==
    IF parts = <<>> THEN <<>>
    ELSE IF Len(parts) = 1 THEN parts[1]
    ELSE parts[1] \o sep \o Join(Tail(parts), sep)

----------------------------------------------------------------------------
(* core/knowledge_base.py                                                  *)

\* MEDICAL_TESTS, in insertion order: dict keys and values. explanation_low
\* and explanation_high say whether the entry holds a non-empty text.
MEDICAL_TESTS == <<
    [name |-> <<"h", "e", "m", "o", "g", "l", "o", "b", "i", "n">>,
     unit |-> <<"g", "/", "d", "L">>,
     low |-> [num |-> 12, dec |-> 0], high |-> [num |-> 15, dec |-> 0],
     explanation_low |-> TRUE, explanation_high |-> TRUE],
    [name |-> <<"w", "b", "c">>,
     unit |-> <<"/", "u", "L">>,
     low |-> [num |-> 4000, dec |-> 0], high |-> [num |-> 11000, dec |-> 0],
     explanation_low |-> TRUE, explanation_high |-> TRUE],
    [name |-> <<"p", "l", "a", "t", "e", "l", "e", "t", "s">>,
     unit |-> <<"/", "u", "L">>,
     low |-> [num |-> 150000, dec |-> 0], high |-> [num |-> 450000, dec |-> 0],
     explanation_low |-> TRUE, explanation_high |-> TRUE],
    [name |-> <<"r", "b", "c">>,
     unit |-> <<"m", "i", "l", "l", "i", "o", "n", "/", "u", "L">>,
     low |-> [num |-> 42, dec |-> 1], high |-> [num |-> 54, dec |-> 1],
     explanation_low |-> TRUE, explanation_high |-> TRUE],
    [name |-> <<"g", "l", "u", "c", "o", "s", "e">>,
     unit |-> <<"m", "g", "/", "d", "L">>,
     low |-> [num |-> 70, dec |-> 0], high |-> [num |-> 100, dec |-> 0],
     explanation_low |-> TRUE, explanation_high |-> TRUE],
    [name |-> <<"c", "r", "e", "a", "t", "i", "n", "i", "n", "e">>,
     unit |-> <<"m", "g", "/", "d", "L">>,
     low |-> [num |-> 6, dec |-> 1], high |-> [num |-> 13, dec |-> 1],
     explanation_low |-> TRUE, explanation_high |-> TRUE],
    [name |-> <<"b", "u", "n">>,
     unit |-> <<"m", "g", "/", "d", "L">>,
     low |-> [num |-> 7, dec |-> 0], high |-> [num |-> 20, dec |-> 0],
     explanation_low |-> TRUE, explanation_high |-> TRUE],
    [name |-> <<"s", "o", "d", "i", "u", "m">>,
     unit |-> <<"m", "E", "q", "/", "L">>,
     low |-> [num |-> 135, dec |-> 0], high |-> [num |-> 145, dec |-> 0],
     explanation_low |-> TRUE, explanation_high |-> TRUE],
    [name |-> <<"p", "o", "t", "a", "s", "s", "i", "u", "m">>,
     unit |-> <<"m", "E", "q", "/", "L">>,
     low |-> [num |-> 35, dec |-> 1], high |-> [num |-> 5, dec |-> 0],
     explanation_low |-> TRUE, explanation_high |-> TRUE],
    [name |-> <<"c", "h", "o", "l", "e", "s", "t", "e", "r", "o", "l">>,
     unit |-> <<"m", "g", "/", "d", "L">>,
     low |-> [num |-> 125, dec |-> 0], high |-> [num |-> 200, dec |-> 0],
     explanation_low |-> TRUE, explanation_high |-> TRUE],
    [name |-> <<"t", "r", "i", "g", "l", "y", "c", "e", "r", "i", "d", "e", "s">>,
     unit |-> <<"m", "g", "/", "d", "L">>,
     low |-> [num |-> 0, dec |-> 0], high |-> [num |-> 150, dec |-> 0],
     explanation_low |-> TRUE, explanation_high |-> TRUE],
    [name |-> <<"b", "l", "o", "o", "d", " ", "s", "u", "g", "a", "r", " ", "(", "f", "a", "s", "t", "i", "n", "g", ")">>,
     unit |-> <<"m", "g", "/", "d", "L">>,
     low |-> [num |-> 70, dec |-> 0], high |-> [num |-> 100, dec |-> 0],
     explanation_low |-> TRUE, explanation_high |-> TRUE],
    [name |-> <<"b", "l", "o", "o", "d", " ", "s", "u", "g", "a", "r", " ", "(", "p", "o", "s", "t", "p", "r", "a", "n", "d", "i", "a", "l", ")">>,
     unit |-> <<"m", "g", "/", "d", "L">>,
     low |-> [num |-> 70, dec |-> 0], high |-> [num |-> 140, dec |-> 0],
     explanation_low |-> TRUE, explanation_high |-> TRUE]
>>

\* VALID_TEST_NAMES = list(MEDICAL_TESTS.keys())
VALID_TEST_NAMES(cat) == [k \in 1..Len(cat) |-> cat[k].name]

\* MEDICAL_TESTS.get(name): the entry, or None
CatalogGet(cat, name) ==
    IF \E k \in 1..Len(cat) : cat[k].name = name
    THEN cat[CHOOSE k \in 1..Len(cat) : cat[k].name = name]
    ELSE [none |-> TRUE]

----------------------------------------------------------------------------
(* core/parser.py: _extract_test_lines_from_text                           *)

\* headers_to_remove
HeadersToRemove == << <<"c", "b", "c", ":">>, <<"b", "c", ":">> >>

RECURSIVE RemoveHeaders(_, _)
RemoveHeaders(s, hs) ==
    IF hs = <<>> THEN s ELSE RemoveHeaders(Replace(s, Head(hs), <<>>), Tail(hs))

\* re.sub(r'([a-zA-Z])(?=\d)', r'\1 ', s): a space after each letter that a
\* digit follows
RECURSIVE SpaceLetterDigit(_, _)
SpaceLetterDigit(s, i) ==
    IF i > Len(s) THEN <<>>
    ELSE IF s[i] \in Letter /\ At(s, i + 1) \in Digit
         THEN <<s[i], " ">> \o SpaceLetterDigit(s, i + 1)
         ELSE <<s[i]>> \o SpaceLetterDigit(s, i + 1)

\* re.split(r'[\n;]+', s): the pieces between the runs of separators, the
\* empty piece before a leading run and after a trailing run included
LineSep == {"NL", ";"}
RECURSIVE SplitFrom(_, _, _)
SplitFrom(s, i, piece) ==
    IF i > Len(s) THEN <<piece>>
    ELSE IF s[i] \in LineSep
         THEN <<piece>> \o SplitFrom(s, RunEnd(s, i, LineSep), <<>>)
         ELSE SplitFrom(s, i + 1, Append(piece, s[i]))

SplitLines(s) == SplitFrom(s, 1, <<>>)

\* The classes of the forgiving pattern. Under re.IGNORECASE the micro sign
\* of the unit class also matches the small mu.
ExtNameClass == Letter \cup Space \cup {"(", ")"}
ExtValueClass == Digit \cup {",", "."}
UnitClass == Letter \cup Space \cup {"/", "MICRO", "MU"}
StatusClass == Word \cup Space

\* The optional status of the forgiving pattern after position u, whose
\* closing parenthesis is optional: the end of the match
ExtStatusEnd(line, u, x, y) ==
    IF At(line, x) = "(" /\ y > x + 1
    THEN (IF At(line, y) = ")" THEN y + 1 ELSE y)
    ELSE u

ExtStatusAt(line, u, x) == ExtStatusEnd(line, u, x, RunEnd(line, x + 1, StatusClass))

\* The greedy value from q, the spaces and the optional unit after it
ExtAfterUnit(line, u) == ExtStatusAt(line, u, RunEnd(line, u, Space))

ExtValueEnd(line, q, v) ==
    IF v = q THEN 0
    ELSE ExtAfterUnit(line, RunEnd(line, RunEnd(line, v, Space), UnitClass))

ExtValueAt(line, q) == ExtValueEnd(line, q, RunEnd(line, q, ExtValueClass))

\* The name is a run of name characters from s to p; the lazy name and the
\* greedy \s*:?\s* together reach the first value character, which no name
\* character is
ExtNameEnd(line, s, p) ==
    IF p = s THEN 0
    ELSE ExtValueAt(line, IF At(line, p) = ":" THEN RunEnd(line, p + 1, Space) ELSE p)

\* The end (exclusive) of the match of the forgiving pattern that starts at
\* position s, or 0 when there is none; value, unit and status are greedy
\* and everything after the value is optional
ExtMatchEnd(line, s) == ExtNameEnd(line, s, RunEnd(line, s, ExtNameClass))

\* The matches from position pos on, given the end e of the match at pos
RECURSIVE FindIter(_, _)
FindIterFrom(line, pos, e) ==
    IF e = 0 THEN FindIter(line, pos + 1)
    ELSE <<Strip(SubSeq(line, pos, e - 1))>> \o FindIter(line, e)

\* pattern.finditer(line): the matches left to right, each stripped
FindIter(line, pos) ==
    IF pos > Len(line) THEN <<>>
    ELSE FindIterFrom(line, pos, ExtMatchEnd(line, pos))

RECURSIVE ExtendAll(_)
ExtendAll(ls) ==
    IF ls = <<>> THEN <<>> ELSE FindIter(Head(ls), 1) \o ExtendAll(Tail(ls))

\* _extract_test_lines_from_text(raw_text)
ExtractTestLines(raw_text) ==
    ExtendAll(SplitLines(SpaceLetterDigit(RemoveHeaders(ToLower(raw_text), HeadersToRemove), 1)))

----------------------------------------------------------------------------
(* core/parser.py: find_best_test_name_match                               *)

\* Python's None where a string may stand, and where a record may stand
None == <<"None">>
NoneRec == [none |-> TRUE]

\* A test for None alone, which takes the empty string for a value
IsNotNone(x) == x # None

\* if x: for a string or None
Truthy(x) == x # None /\ x # <<>>

\* thefuzz's default processor: lowercase, every character that is neither
\* a letter nor a digit becomes a space, then strip
FullProcess(s) ==
    Strip([k \in 1..Len(s) |->
              IF s[k] \in Letter \cup Digit THEN LowerChar(s[k]) ELSE " "])

\* Names near a catalog key whose thefuzz WRatio is worked out by hand:
\* "wbcc"/"wbc" 2*3/7 = 86, "hemoglobn"/"hemoglobin" 2*9/19 = 95,
\* "bum"/"bun" 2*2/6 = 67 (every other key scores at most 60).
FuzzTable == {
    [query |-> <<"w", "b", "c", "c">>, best |-> <<"w", "b", "c">>, score |-> 86],
    [query |-> <<"h", "e", "m", "o", "g", "l", "o", "b", "n">>,
     best |-> <<"h", "e", "m", "o", "g", "l", "o", "b", "i", "n">>, score |-> 95],
    [query |-> <<"b", "u", "m">>, best |-> <<"b", "u", "n">>, score |-> 67] }

\* process.extractOne(raw_name, valid_names) of the library thefuzz, by its
\* contract: the first best-scoring choice with its score in 0..100. A choice
\* equal to the query after processing scores 100 and no other choice does;
\* a query that shares no character with any choice scores 0 against all of
\* them, and the first choice is returned; the queries of FuzzTable score as
\* listed. No other query is given to it in this model.
ExtractOne(raw_name, valid_names) ==
    LET q == FullProcess(raw_name)
        exact == {k \in 1..Len(valid_names) : FullProcess(valid_names[k]) = q}
        shared == {k \in 1..Len(valid_names) :
                      Range(FullProcess(valid_names[k])) \cap (Range(q) \ {" "}) # {}}
    IN  IF exact # {}
        THEN [best |-> valid_names[CHOOSE k \in exact : \A j \in exact : k <= j],
              score |-> 100]
        ELSE IF shared = {}
        THEN [best |-> valid_names[1], score |-> 0]
        ELSE LET row == CHOOSE r \in FuzzTable : r.query = q
             IN  [best |-> row.best, score |-> row.score]

\* score_cutoff: int = 75
ScoreCutoff == 75

\* find_best_test_name_match(raw_name, valid_names)
FindBestTestNameMatch(raw_name, valid_names) ==
    LET r == ExtractOne(raw_name, valid_names)
    IN  IF r.score >= ScoreCutoff THEN r.best ELSE None

----------------------------------------------------------------------------
(* core/parser.py: _sanitize_unit and _determine_status                    *)

\* re.sub(r'\s+', '', s)
RECURSIVE RemoveSpace(_)
RemoveSpace(s) ==
    IF s = <<>> THEN <<>>
    ELSE IF Head(s) \in Space THEN RemoveSpace(Tail(s))
    ELSE <<Head(s)>> \o RemoveSpace(Tail(s))

\* A sanitizing that leaves "ul" as it is written
SanitizeUnitKeepUl(unit_str) == RemoveSpace(ToLower(unit_str))

\* _sanitize_unit(unit_str): the small mu becomes the micro sign only in a
\* unit that also holds "ul"
SanitizeUnit(unit_str) ==
    LET sanitized == RemoveSpace(ToLower(unit_str))
    IN  IF Contains(sanitized, <<"u", "l">>)
        THEN Replace(Replace(sanitized, <<"u", "l">>, <<"MICRO", "l">>),
                     <<"MU", "l">>, <<"MICRO", "l">>)
        ELSE sanitized

\* 10^n
RECURSIVE Pow10(_)
Pow10(n) == IF n = 0 THEN 1 ELSE 10 * Pow10(n - 1)

\* a < b for two decimals. float() rounds a decimal to the nearest double:
\* two decimals of at most 15 significant digits compare as their doubles do.
DecLess(a, b) == a.num * Pow10(b.dec) < b.num * Pow10(a.dec)

\* status_map of _determine_status
StatusMap == {
    [phrase |-> <<"h", "i", "g", "h">>, status |-> "high"],
    [phrase |-> <<"h", "g", "h">>, status |-> "high"],
    [phrase |-> <<"h">>, status |-> "high"],
    [phrase |-> <<"l", "i", "g", "h">>, status |-> "high"],
    [phrase |-> <<"l", "o", "w">>, status |-> "low"],
    [phrase |-> <<"l">>, status |-> "low"],
    [phrase |-> <<"l", "o", "h">>, status |-> "low"],
    [phrase |-> <<"n", "o", "r", "m", "a", "l">>, status |-> "normal"],
    [phrase |-> <<"n">>, status |-> "normal"],
    [phrase |-> <<"n", "o", "r", "a", "m", "l">>, status |-> "normal"] }

\* A comparison that takes a value equal to a bound for one outside it
DeriveStatusInclusive(value, test_info) ==
    IF ~DecLess(test_info.low, value) THEN "low"
    ELSE IF ~DecLess(value, test_info.high) THEN "high"
    ELSE "normal"

\* Case 2 of _determine_status: no status is written
DeriveStatus(value, test_info) ==
    IF DecLess(value, test_info.low) THEN "low"
    ELSE IF DecLess(test_info.high, value) THEN "high"
    ELSE "normal"

\* A resolver that derives the status from the value when the phrase that
\* is written is unknown
DetermineStatusFallback(status_raw, value, test_info) ==
    IF Truthy(status_raw)
    THEN LET status_phrase == ToLower(status_raw)
             hit == {r \in StatusMap : r.phrase = status_phrase}
         IN  IF hit # {} THEN (CHOOSE r \in hit : TRUE).status
             ELSE IF Contains(status_phrase, <<"h", "i", "g", "h">>) THEN "high"
             ELSE IF Contains(status_phrase, <<"l", "o", "w">>) THEN "low"
             ELSE DeriveStatus(value, test_info)
    ELSE DeriveStatus(value, test_info)

\* _determine_status(status_raw, value, test_info): "high", "low", "normal",
\* or "None" to skip the test
DetermineStatus(status_raw, value, test_info) ==
    IF Truthy(status_raw)
    THEN LET status_phrase == ToLower(status_raw)
             hit == {r \in StatusMap : r.phrase = status_phrase}
         IN  IF hit # {} THEN (CHOOSE r \in hit : TRUE).status
             ELSE IF Contains(status_phrase, <<"h", "i", "g", "h">>) THEN "high"
             ELSE IF Contains(status_phrase, <<"l", "o", "w">>) THEN "low"
             ELSE "None"
    ELSE DeriveStatus(value, test_info)

----------------------------------------------------------------------------
(* core/parser.py: normalize_tests                                         *)

\* The classes of the pattern of normalize_tests
NormNameClass == Letter \cup Space \cup Digit \cup {".", "(", ")"}
NormValueClass == Digit \cup {",", ".", "o", "O"}

\* (?:\s*:\s*|\s+) at position p with a value character after it: the
\* position of that value character, or 0
SepValueStart(line, p) ==
    LET a == RunEnd(line, p, Space)
        b == RunEnd(line, a + 1, Space)
    IN  IF At(line, a) = ":"
        THEN (IF At(line, b) \in NormValueClass THEN b ELSE 0)
        ELSE IF a > p /\ At(line, a) \in NormValueClass THEN a
        ELSE 0

\* The lazy name that starts at s: the least k >= 1 with k name characters
\* and then a separator and a value, or 0
RECURSIVE NameLen(_, _, _)
NameLen(line, s, k) ==
    IF At(line, s + k - 1) \notin NormNameClass THEN 0
    ELSE IF SepValueStart(line, s + k) # 0 THEN k
    ELSE NameLen(line, s, k + 1)

\* pattern.search(line): the leftmost start of a match, or 0
RECURSIVE SearchStart(_, _)
SearchStart(line, s) ==
    IF s > Len(line) THEN 0
    ELSE IF NameLen(line, s, 1) # 0 THEN s
    ELSE SearchStart(line, s + 1)

\* group(4): the optional status after position u, which needs its closing
\* parenthesis; None when the group takes no part
StatusGroupEnd(line, x, y) ==
    IF At(line, x) = "(" /\ y > x + 1 /\ At(line, y) = ")"
    THEN SubSeq(line, x + 1, y - 1) ELSE None

StatusGroupAt(line, x) == StatusGroupEnd(line, x, RunEnd(line, x + 1, StatusClass))

StatusGroup(line, u) == StatusGroupAt(line, RunEnd(line, u, Space))

\* group(3): the optional unit from w to u, None when it is empty
UnitGroup(line, g1, g2, w, u) ==
    [g1 |-> g1, g2 |-> g2,
     g3 |-> IF u > w THEN SubSeq(line, w, u - 1) ELSE None,
     g4 |-> StatusGroup(line, u)]

AfterValue(line, g1, g2, e) ==
    UnitGroup(line, g1, g2, RunEnd(line, e, Space),
              RunEnd(line, RunEnd(line, e, Space), UnitClass))

\* group(2): the greedy value from v
ValueGroup(line, g1, v) ==
    AfterValue(line, g1, SubSeq(line, v, RunEnd(line, v, NormValueClass) - 1),
               RunEnd(line, v, NormValueClass))

\* group(1): the lazy name of k characters from s
NameGroup(line, s, k) ==
    ValueGroup(line, SubSeq(line, s, s + k - 1), SepValueStart(line, s + k))

GroupsAt(line, s) ==
    IF s = 0 THEN NoneRec ELSE NameGroup(line, s, NameLen(line, s, 1))

\* The groups of the match of pattern.search(line): group(1), group(2),
\* group(3) and group(4), the last two None when the optional group took no
\* part; NoneRec for no match
MatchGroups(line) == GroupsAt(line, SearchStart(line, 1))

\* float(value_str) for a string of digits and dots: the decimal, or NoneRec
\* for the ValueError (no digit, or more than one dot)
RECURSIVE DigitsToInt(_, _)
DigitsToInt(s, acc) ==
    IF s = <<>> THEN acc ELSE DigitsToInt(Tail(s), 10 * acc + DigitVal(Head(s)))

RECURSIVE Canonical(_)
Canonical(d) ==
    IF d.dec > 0 /\ d.num % 10 = 0
    THEN Canonical([num |-> d.num \div 10, dec |-> d.dec - 1]) ELSE d

ParseFloat(value_str) ==
    LET dots == {k \in 1..Len(value_str) : value_str[k] = "."}
        digits == SelectSeq(value_str, LAMBDA c : c \in Digit)
        dot == CHOOSE k \in dots : TRUE
    IN  IF Cardinality(dots) > 1 \/ digits = <<>> THEN NoneRec
        ELSE Canonical([num |-> DigitsToInt(digits, 0),
                        dec |-> IF dots = {} THEN 0 ELSE Len(value_str) - dot])

\* 5. Append Result: the record, unless the status says to skip the test
AppendResult(best_match_name, test_info, value, status) ==
    IF status = "None" THEN NoneRec
    ELSE [name |-> best_match_name, value |-> value, unit |-> test_info.unit,
          status |-> status,
          ref_range |-> [low |-> test_info.low, high |-> test_info.high]]

\* 4. Determine Status, after float(value_str), whose ValueError skips the
\* line
ParseValue(best_match_name, test_info, value, status_raw) ==
    IF value = NoneRec THEN NoneRec
    ELSE AppendResult(best_match_name, test_info, value,
                      DetermineStatus(status_raw, value, test_info))

\* 3. Validate Unit: a unit that is written must be the catalog's after
\* sanitizing both
UnitAccepted(unit_raw, test_info) ==
    ~Truthy(unit_raw) \/ SanitizeUnit(unit_raw) = SanitizeUnit(test_info.unit)

ValidateUnit(best_match_name, test_info, value_str, unit_raw, status_raw) ==
    IF ~UnitAccepted(unit_raw, test_info) THEN NoneRec
    ELSE ParseValue(best_match_name, test_info, ParseFloat(value_str), status_raw)

\* 2. Validate Name
ValidateName(best_match_name, value_str, unit_raw, status_raw, cat) ==
    IF ~Truthy(best_match_name) THEN NoneRec
    ELSE ValidateUnit(best_match_name, CatalogGet(cat, best_match_name),
                      value_str, unit_raw, status_raw)

\* 1. Extract Data
ExtractData(match, cat) ==
    IF match = NoneRec THEN NoneRec
    ELSE ValidateName(
             FindBestTestNameMatch(Strip(match.g1), VALID_TEST_NAMES(cat)),
             Replace(Replace(Replace(match.g2, <<",">>, <<>>), <<"o">>, <<"0">>),
                     <<"O">>, <<"0">>),
             IF Truthy(match.g3) THEN Strip(match.g3) ELSE None,
             match.g4, cat)

\* One pass of the loop of normalize_tests over one line: the record to
\* append, or NoneRec when the line is skipped
NormalizeLine(line, cat) == ExtractData(MatchGroups(line), cat)

\* A loop that puts each record before the records of the lines before it
RECURSIVE NormalizeLoopReversed(_, _)
NormalizeLoopReversed(corrected_lines, cat) ==
    IF corrected_lines = <<>> THEN <<>>
    ELSE LET r == NormalizeLine(Head(corrected_lines), cat)
         IN  NormalizeLoopReversed(Tail(corrected_lines), cat)
             \o (IF r = NoneRec THEN <<>> ELSE <<r>>)

RECURSIVE NormalizeLoop(_, _)
NormalizeLoop(corrected_lines, cat) ==
    IF corrected_lines = <<>> THEN <<>>
    ELSE LET r == NormalizeLine(Head(corrected_lines), cat)
         IN  (IF r = NoneRec THEN <<>> ELSE <<r>>)
             \o NormalizeLoop(Tail(corrected_lines), cat)

\* round(x, 2) for x = a / n with 0 <= a <= n, in hundredths, a tie going to
\* the even hundredth. A tie needs 200 * a / n to be an odd integer; for
\* n below 40 that makes a / n an odd multiple of 1/8, which a double holds
\* exactly, so the tie is a tie of the double too.
Round2(a, n) ==
    LET q == (100 * a) \div n
        r == (100 * a) % n
    IN  IF 2 * r > n THEN q + 1
        ELSE IF 2 * r < n THEN q
        ELSE IF q % 2 = 0 THEN q ELSE q + 1

\* A confidence that is 1.0 for no lines
ConfidenceOneWhenEmpty(n_results, n_lines) ==
    IF n_lines # 0 THEN Round2(n_results, n_lines) ELSE 100

\* The normalization confidence of normalize_tests, in hundredths
NormalizationConfidence(n_results, n_lines) ==
    IF n_lines # 0 THEN Round2(n_results, n_lines) ELSE 0

\* normalize_tests(corrected_lines)
NormalizeTests(corrected_lines, cat) ==
    LET normalized_results == NormalizeLoop(corrected_lines, cat)
    IN  [tests |-> normalized_results,
         normalization_confidence |->
             NormalizationConfidence(Len(normalized_results), Len(corrected_lines))]

----------------------------------------------------------------------------
(* core/summarizer.py: generate_summary                                    *)

\* summary_limit = 3
SummaryLimit == 3

\* The text of a status
StatusText(status) ==
    CASE status = "high" -> <<"h", "i", "g", "h">>
      [] status = "low" -> <<"l", "o", "w">>
      [] OTHER -> <<"n", "o", "r", "m", "a", "l">>

\* str(n) for n >= 0
RECURSIVE IntText(_)
IntText(n) ==
    IF n < 10 THEN <<DigitSeq[n + 1]>>
    ELSE IntText(n \div 10) \o <<DigitSeq[(n % 10) + 1]>>

AllNormalSentence ==
    <<"A", "l", "l", " ", "t", "e", "s", "t", " ", "r", "e", "s", "u", "l",
      "t", "s", " ", "a", "p", "p", "e", "a", "r", " ", "t", "o", " ", "b", "e",
      " ", "w", "i", "t", "h", "i", "n", " ", "t", "h", "e", " ", "n", "o", "r",
      "m", "a", "l", " ", "r", "a", "n", "g", "e", ".">>
YourReportShows ==
    <<"Y", "o", "u", "r", " ", "r", "e", "p", "o", "r", "t", " ", "s", "h",
      "o", "w", "s", " ">>
CommaAnd == <<",", " ", "a", "n", "d", " ">>
MoreAbnormalResults ==
    <<" ", "m", "o", "r", "e", " ", "a", "b", "n", "o", "r", "m", "a", "l",
      " ", "r", "e", "s", "u", "l", "t", "s", ".">>
And == <<" ", "a", "n", "d", " ">>
Comma == <<",", " ">>

\* A loop in which every test adds a summary point
EveryTestIsAPoint(test) == TRUE

\* if status != "normal": the test adds a summary point
IsAbnormal(test) == test.status # "normal"

\* summary_points: f"{status} {name}" for each test that is not normal, in
\* the order of the tests
RECURSIVE SummaryPoints(_)
SummaryPoints(normalized_tests) ==
    IF normalized_tests = <<>> THEN <<>>
    ELSE LET test == Head(normalized_tests)
         IN  (IF IsAbnormal(test)
              THEN << StatusText(test.status) \o <<" ">> \o test.name >>
              ELSE <<>>)
             \o SummaryPoints(Tail(normalized_tests))

\* explanations: one entry for each test. The entry is kept as the test's
\* name and the kind of its sentence: the catalog's explanation for the
\* status, the sentence for an empty explanation, or the sentence for a
\* normal result.
RECURSIVE Explanations(_, _)
Explanations(normalized_tests, cat) ==
    IF normalized_tests = <<>> THEN <<>>
    ELSE LET test == Head(normalized_tests)
             entry == CatalogGet(cat, ToLower(test.name))
             phrase == IF entry = NoneRec THEN FALSE
                       ELSE IF test.status = "high" THEN entry.explanation_high
                       ELSE IF test.status = "low" THEN entry.explanation_low
                       ELSE FALSE
         IN  << [name |-> test.name,
                 kind |-> IF ~IsAbnormal(test) THEN "within_normal"
                          ELSE IF phrase THEN "explanation"
                          ELSE "no_specific_explanation"] >>
             \o Explanations(Tail(normalized_tests), cat)

\* The final summary sentence
SummarySentence(summary_points) ==
    LET n == Len(summary_points)
    IN  IF n = 0 THEN AllNormalSentence
        ELSE IF n > SummaryLimit
        THEN YourReportShows \o Join(SubSeq(summary_points, 1, SummaryLimit), Comma)
             \o CommaAnd \o IntText(n - SummaryLimit) \o MoreAbnormalResults
        ELSE IF n = 1 THEN YourReportShows \o summary_points[1] \o <<".">>
        ELSE IF n = 2
        THEN YourReportShows \o summary_points[1] \o And \o summary_points[2] \o <<".">>
        ELSE YourReportShows \o Join(SubSeq(summary_points, 1, n - 1), Comma)
             \o CommaAnd \o summary_points[n] \o <<".">>

\* generate_summary(normalized_tests)
GenerateSummary(normalized_tests, cat) ==
    LET explanations == Explanations(normalized_tests, cat)
    IN  [summary |-> SummarySentence(SummaryPoints(normalized_tests)),
         explanations |-> IF explanations # <<>> THEN explanations
                          ELSE << [name |-> <<>>, kind |-> "no_additional_details"] >>]

----------------------------------------------------------------------------
(* core/extract.py                                                         *)

RECURSIVE Sum(_)
Sum(xs) == IF xs = <<>> THEN 0 ELSE Head(xs) + Sum(Tail(xs))

\* What one call of ocr_engine.predict does, as a record: raises is "none",
\* "FileNotFoundError" or "Exception"; empty says that the results, or their
\* first element, are empty; texts and scores are rec_texts and rec_scores,
\* a score in hundredths.
Raises(outcome) == outcome.raises # "none"

\* confidence_threshold=0.90, in hundredths
ConfidenceThreshold == 90

\* _parse_ocr_results(results): (texts, avg_confidence), the confidence kept
\* as the exact fraction num / den of hundredths. With scores in hundredths
\* and fewer than 200 of them, round(avg, 4) >= 0.90 exactly when the
\* fraction is at least 90.
ParseOcrResults(results) ==
    IF results.empty \/ results.texts = <<>> \/ results.scores = <<>>
    THEN [texts |-> <<>>, num |-> 0, den |-> 1]
    ELSE [texts |-> results.texts, num |-> Sum(results.scores),
          den |-> Len(results.scores)]

\* extract_text_from_report(ocr_engine, image_path) against an engine whose
\* first call does ocr.pass1 and whose second call does ocr.pass2, with
\* ocr.preprocess saying what _preprocess_for_handwriting raises: the text,
\* or None after any exception
ExtractTextFromReport(ocr) ==
    LET p1 == ParseOcrResults(ocr.pass1)
        p2 == ParseOcrResults(ocr.pass2)
    IN  IF Raises(ocr.pass1) THEN None
        ELSE IF p1.num >= ConfidenceThreshold * p1.den THEN Join(p1.texts, <<"NL">>)
        ELSE IF ocr.preprocess # "none" \/ Raises(ocr.pass2) THEN None
        ELSE Join(p2.texts, <<"NL">>)

----------------------------------------------------------------------------
(* core/pipeline.py: process_medical_report, one action for each stage     *)

\* The invocations the model runs
Inv == {1, 2}

\* A value passed as raw_text that is not a string (a number, say): it is
\* truthy and the line extractor raises on it
NonStr == <<"NonStr">>
NonStrMessage == "'int' object has no attribute 'lower'"

\* The exception a stage of the try block raises in invocation i, "" for
\* none: the fault the environment injects in that stage (a callee, a print
\* or a json.dumps that raises), or the AttributeError of a raw_text that
\* is not a string
Raised(i, stage) ==
    IF stage = "extract" /\ text[i] = NonStr THEN NonStrMessage
    ELSE IF input[i].fault.stage = stage THEN input[i].fault.message
    ELSE ""

\* A handler that reports the exception as unprocessed
ExceptUnprocessed(message) == [status |-> "unprocessed", reason |-> message]

\* except Exception as e: return {"status": "error", "reason": str(e)}
ExceptResult(message) == [status |-> "error", reason |-> message]

\* A check for the empty text that does not strip it
IsEmptyText(final_raw_text) == final_raw_text = <<>>

\* if not final_raw_text.strip()
IsBlank(final_raw_text) == Strip(final_raw_text) = <<>>

\* A check that also refuses a single accepted test
AtMostOneTest(normalized_tests) == Len(normalized_tests) <= 1

\* if not normalized_tests
NoNormalizedTests(normalized_tests) == normalized_tests = <<>>

\* A final output that also carries a reason
FinalOutputWithReason(normalized_tests, summary_result) ==
    [tests |-> normalized_tests, summary |-> summary_result.summary,
     status |-> "ok", reason |-> ""]

\* final_output
FinalOutput(normalized_tests, summary_result) ==
    [tests |-> normalized_tests, summary |-> summary_result.summary, status |-> "ok"]

Return(i, r) ==
    /\ result' = [result EXCEPT ![i] = r]
    /\ pc' = [pc EXCEPT ![i] = "done"]

\* Step 0: determine the input and get the raw text
DetermineInput(i) ==
    /\ pc[i] = "init"
    /\ LET a == input[i]
           ocr_text == ExtractTextFromReport(a.ocr)
       IN  IF Truthy(a.image_path)
           THEN IF ~a.ocr_engine
                THEN /\ Return(i, [status |-> "error",
                            reason |-> "OCR engine not provided for image processing."])
                     /\ UNCHANGED text
                ELSE IF ocr_text = None
                THEN /\ Return(i, [status |-> "error",
                            reason |-> "Image file not found or could not be processed."])
                     /\ UNCHANGED text
                ELSE IF IsBlank(ocr_text)
                THEN /\ Return(i, [status |-> "unprocessed",
                            reason |-> "OCR failed: No text could be extracted from the image."])
                     /\ text' = [text EXCEPT ![i] = ocr_text]
                ELSE /\ text' = [text EXCEPT ![i] = ocr_text]
                     /\ pc' = [pc EXCEPT ![i] = "extracting"]
                     /\ UNCHANGED result
           ELSE IF Truthy(a.raw_text)
           THEN /\ text' = [text EXCEPT ![i] = a.raw_text]
                /\ pc' = [pc EXCEPT ![i] = "extracting"]
                /\ UNCHANGED result
           ELSE /\ Return(i, [status |-> "error",
                       reason |-> "No input provided (either text or image is required)."])
                /\ UNCHANGED text
    /\ UNCHANGED <<invs, input, lines, tests, response, ran, catalog>>

\* Step 1: extract the test lines from the raw text
ExtractStep(i) ==
    /\ pc[i] = "extracting"
    /\ LET extraction_result == ExtractTestLines(text[i])
       IN  IF Raised(i, "extract") # ""
           THEN Return(i, ExceptResult(Raised(i, "extract"))) /\ UNCHANGED lines
           ELSE /\ lines' = [lines EXCEPT ![i] = extraction_result]
                /\ IF extraction_result = <<>>
                   THEN Return(i, [status |-> "unprocessed",
                               reason |-> "No hallucinated tests not present in input"])
                   ELSE pc' = [pc EXCEPT ![i] = "normalizing"] /\ UNCHANGED result
    /\ ran' = [ran EXCEPT ![i] = @ \cup {"extract"}]
    /\ UNCHANGED <<invs, input, text, tests, response, catalog>>

\* A normalization whose list of results is shared by the invocations: the
\* results of the invocations that normalized before stay in it
NormalizeStepShared(i) ==
    /\ pc[i] = "normalizing"
    /\ LET own == NormalizeTests(lines[i], catalog)
           others == {j \in invs \ {i} : "normalize" \in ran[j] /\ tests[j] # NoneRec}
           before == IF others = {} THEN <<>>
                     ELSE tests[CHOOSE j \in others : TRUE].tests
           normalization_result == [own EXCEPT !.tests = before \o @]
       IN  /\ tests' = [tests EXCEPT ![i] = normalization_result]
           /\ IF NoNormalizedTests(normalization_result.tests)
              THEN Return(i, [status |-> "unprocessed",
                          reason |-> "No hallucinated tests not present in input."])
              ELSE pc' = [pc EXCEPT ![i] = "summarizing"] /\ UNCHANGED result
    /\ ran' = [ran EXCEPT ![i] = @ \cup {"normalize"}]
    /\ UNCHANGED <<invs, input, text, lines, response, catalog>>

\* Step 2: normalize the extracted test lines
NormalizeStep(i) ==
    /\ pc[i] = "normalizing"
    /\ LET normalization_result == NormalizeTests(lines[i], catalog)
       IN  IF Raised(i, "normalize") # ""
           THEN Return(i, ExceptResult(Raised(i, "normalize"))) /\ UNCHANGED tests
           ELSE /\ tests' = [tests EXCEPT ![i] = normalization_result]
                /\ IF NoNormalizedTests(normalization_result.tests)
                   THEN Return(i, [status |-> "unprocessed",
                               reason |-> "No hallucinated tests not present in input."])
                   ELSE pc' = [pc EXCEPT ![i] = "summarizing"] /\ UNCHANGED result
    /\ ran' = [ran EXCEPT ![i] = @ \cup {"normalize"}]
    /\ UNCHANGED <<invs, input, text, lines, response, catalog>>

\* Steps 3 and 4: generate the summary and return the final output
SummarizeStep(i) ==
    /\ pc[i] = "summarizing"
    /\ LET summary_result == GenerateSummary(tests[i].tests, catalog)
       IN  IF Raised(i, "summarize") # ""
           THEN Return(i, ExceptResult(Raised(i, "summarize")))
           ELSE Return(i, FinalOutput(tests[i].tests, summary_result))
    /\ ran' = [ran EXCEPT ![i] = @ \cup {"summarize"}]
    /\ UNCHANGED <<invs, input, text, lines, tests, response, catalog>>

----------------------------------------------------------------------------
(* main.py: the two endpoints, from the pipeline's return to the response  *)

\* HTTPException(status_code=..., detail=...)
HTTPException(status_code, detail) == [status_code |-> status_code, detail |-> detail]

\* return final_report: the response 200 with the report as its body
Success(final_report) == [status_code |-> 200, body |-> final_report]

\* An endpoint that answers 500 for unprocessed and 400 for error
SwappedResponse(final_report) ==
    IF final_report.status \in {"error", "unprocessed"}
    THEN HTTPException(IF final_report.status = "unprocessed" THEN 500 ELSE 400,
                       IF "reason" \in DOMAIN final_report
                       THEN final_report.reason ELSE "None")
    ELSE Success(final_report)

\* process_image_report, after process_medical_report returned
ImageResponse(final_report) ==
    IF final_report.status \in {"error", "unprocessed"}
    THEN HTTPException(IF final_report.status = "unprocessed" THEN 400 ELSE 500,
                       IF "reason" \in DOMAIN final_report
                       THEN final_report.reason ELSE "Processing failed")
    ELSE Success(final_report)

\* process_text_report, after process_medical_report returned
TextResponse(final_report) ==
    IF final_report.status \in {"error", "unprocessed"}
    THEN HTTPException(IF final_report.status = "unprocessed" THEN 400 ELSE 500,
                       IF "reason" \in DOMAIN final_report
                       THEN final_report.reason ELSE "None")
    ELSE Success(final_report)

ProcessImageReport(i) ==
    /\ pc[i] = "done"
    /\ input[i].via = "image_endpoint"
    /\ response' = [response EXCEPT ![i] = ImageResponse(result[i])]
    /\ pc' = [pc EXCEPT ![i] = "responded"]
    /\ UNCHANGED <<invs, input, text, lines, tests, result, ran, catalog>>

ProcessTextReport(i) ==
    /\ pc[i] = "done"
    /\ input[i].via = "text_endpoint"
    /\ response' = [response EXCEPT ![i] = TextResponse(result[i])]
    /\ pc' = [pc EXCEPT ![i] = "responded"]
    /\ UNCHANGED <<invs, input, text, lines, tests, result, ran, catalog>>

----------------------------------------------------------------------------
(* The inputs of the pipeline                                              *)

\* Scenario A: two tests, both accepted
TextScenarioA ==
    <<"H", "e", "m", "o", "g", "l", "o", "b", "i", "n", ":", " ", "1", "0",
      ".", "2", " ", "g", "/", "d", "L", " ", "(", "L", "o", "w", ")", ",",
      " ", "W", "B", "C", " ", "1", "1", "2", "0", "0", " ", "/", "u", "L",
      " ", "(", "H", "i", "g", "h", ")">>

\* Scenario B: two lines, an o for a zero
TextScenarioB ==
    <<"B", "U", "N", " ", "8", "m", "g", "/", "d", "L", "(", "L", "o", "w",
      ")", "NL", "P", "l", "a", "t", "e", "l", "e", "t", "s", ":", " ",
      "1", "5", "0", "0", "0", "o", " ", "/", "u", "L", " ", "(", "L", "o",
      "w", ")">>

\* Scenario C: a name the catalog does not know
TextScenarioC ==
    <<"z", "z", "z", " ", "5">>

\* no value: the extractor finds no candidate
TextNoCandidates ==
    <<"h", "e", "l", "l", "o">>

\* a blank text: truthy, and no candidate
TextBlank ==
    <<" ">>

\* one accepted, one unknown name, one unit mismatch
TextMixed ==
    <<"w", "b", "c", " ", "5", "0", "0", "0", " ", "/", "u", "L", ";", " ",
      "z", "z", "z", " ", "5", ";", " ", "b", "u", "n", " ", "3", "0", " ",
      "m", "g">>

\* Scenario E: within the bounds
TextAllNormal ==
    <<"C", "B", "C", ":", " ", "w", "b", "c", " ", "5", "0", "0", "0">>

\* a status phrase that is rejected
TextUnknownStatus ==
    <<"w", "b", "c", " ", "5", "0", "0", "0", " ", "(", "a", "b", "c", ")">>

\* more abnormal results than the display limit
TextFourAbnormal ==
    <<"w", "b", "c", "3", "0", "0", "0", "NL", "b", "u", "n", " ", "3",
      "0", "NL", "r", "b", "c", " ", "6", ".", "1", "NL", "g", "l", "u",
      "c", "o", "s", "e", " ", "5", "0">>

RawTexts == {TextScenarioA, TextScenarioB, TextScenarioC, TextNoCandidates,
             TextBlank, TextMixed, TextAllNormal, TextUnknownStatus,
             TextFourAbnormal}

\* The path of an image
ImagePath == <<"r", ".", "p", "n", "g">>

\* What predict may do
PredictRaises(e) == [raises |-> e, empty |-> TRUE, texts |-> <<>>, scores |-> <<>>]
PredictEmpty == [raises |-> "none", empty |-> TRUE, texts |-> <<>>, scores |-> <<>>]
PredictTexts(ts, ss) == [raises |-> "none", empty |-> FALSE, texts |-> ts, scores |-> ss]

Ocr(p1, pre, p2) == [pass1 |-> p1, preprocess |-> pre, pass2 |-> p2]

\* The engines: the file is missing; the engine fails; nothing is read in
\* either pass; a confident first pass; a first pass below the threshold
\* and then a preprocessing that fails, a second pass that fails, a second
\* pass that reads blanks, and a second pass that reads text; a first pass
\* that reads one blank line with confidence
OcrEngines == {
    Ocr(PredictRaises("FileNotFoundError"), "none", PredictEmpty),
    Ocr(PredictRaises("Exception"), "none", PredictEmpty),
    Ocr(PredictEmpty, "none", PredictEmpty),
    Ocr(PredictTexts(<< <<"w", "b", "c", " ", "5", "0", "0", "0">>,
                        <<"b", "u", "n", " ", "3", "0">> >>, <<95, 91>>),
        "none", PredictEmpty),
    Ocr(PredictTexts(<< <<"w", "b", "c">> >>, <<40>>), "Exception", PredictEmpty),
    Ocr(PredictTexts(<< <<"w", "b", "c">> >>, <<89>>), "none", PredictRaises("Exception")),
    Ocr(PredictTexts(<< <<"w", "b", "c">> >>, <<95, 84>>), "none",
        PredictTexts(<< <<" ">>, <<"TAB">> >>, <<50, 60>>)),
    Ocr(PredictTexts(<< <<"w", "b", "c">> >>, <<10>>), "none",
        PredictTexts(<< <<"z", "z", "z", " ", "5">> >>, <<99>>)),
    Ocr(PredictTexts(<< <<" ">> >>, <<90>>), "none", PredictEmpty) }

NoOcr == Ocr(PredictEmpty, "none", PredictEmpty)

\* The faults the environment may inject: none, or an exception in one
\* stage of the try block
NoFault == [stage |-> "none", message |-> ""]
Faults == {NoFault}
    \cup {[stage |-> st, message |-> "boom"] : st \in {"extract", "normalize", "summarize"}}

Call(via, raw_text, image_path, ocr_engine, ocr, fault) ==
    [via |-> via, raw_text |-> raw_text, image_path |-> image_path,
     ocr_engine |-> ocr_engine, ocr |-> ocr, fault |-> fault]

\* Calls with a text: process_medical_report(raw_text=...), directly or from
\* the text endpoint, whose text is a string
TextCalls ==
    {Call(via, t, None, FALSE, NoOcr, f) :
        via \in {"direct", "text_endpoint"}, t \in RawTexts \cup {<<>>}, f \in Faults}
    \cup {Call("direct", t, None, FALSE, NoOcr, NoFault) : t \in {None, NonStr}}

\* Calls with an image and an engine, directly or from the image endpoint;
\* a raw text given with an image is ignored
ImageCalls ==
    {Call(via, None, ImagePath, TRUE, o, f) :
        via \in {"direct", "image_endpoint"}, o \in OcrEngines, f \in Faults}
    \cup {Call("direct", TextAllNormal, ImagePath, TRUE, o, NoFault) : o \in OcrEngines}

\* Calls that input validation refuses or that give an empty image path
OtherCalls ==
    {Call("direct", t, p, e, o, NoFault) :
        t \in {None, <<>>, TextAllNormal}, p \in {None, <<>>, ImagePath},
        e \in {FALSE}, o \in {NoOcr}}
    \cup {Call("direct", t, p, TRUE, NoOcr, NoFault) : t \in {None, <<>>}, p \in {None, <<>>}}

Inputs == TextCalls \cup ImageCalls \cup OtherCalls

\* The inputs of the runs with two invocations
ConcInputs ==
    {Call("direct", t, None, FALSE, NoOcr, NoFault) :
        t \in {TextScenarioA, TextMixed, TextAllNormal, TextScenarioC, <<>>}}
    \cup {Call("text_endpoint", TextMixed, None, FALSE, NoOcr,
               [stage |-> "normalize", message |-> "boom"])}
    \cup {Call("image_endpoint", None, ImagePath, TRUE, o, NoFault) :
             o \in {Ocr(PredictEmpty, "none", PredictEmpty),
                    Ocr(PredictTexts(<< <<"w", "b", "c", " ", "5", "0", "0", "0">>,
                                        <<"b", "u", "n", " ", "3", "0">> >>, <<95, 91>>),
                        "none", PredictEmpty)}}

----------------------------------------------------------------------------
(* The specifications                                                      *)

Idle == [i \in Inv |-> "idle"]

InitLocals ==
    /\ text = [i \in Inv |-> None]
    /\ lines = [i \in Inv |-> <<>>]
    /\ tests = [i \in Inv |-> NoneRec]
    /\ result = [i \in Inv |-> NoneRec]
    /\ response = [i \in Inv |-> NoneRec]
    /\ ran = [i \in Inv |-> {}]
    /\ catalog = MEDICAL_TESTS

\* One invocation of the pipeline, any input
Init ==
    /\ invs = {1}
    /\ \E a \in Inputs : input = [i \in Inv |-> IF i = 1 THEN a ELSE NoneRec]
    /\ pc = [Idle EXCEPT ![1] = "init"]
    /\ InitLocals

Next ==
    \/ \E i \in invs : DetermineInput(i)
    \/ \E i \in invs : ExtractStep(i)
    \/ \E i \in invs : NormalizeStep(i)
    \/ \E i \in invs : SummarizeStep(i)
    \/ \E i \in invs : ProcessImageReport(i)
    \/ \E i \in invs : ProcessTextReport(i)

Spec == Init /\ [][Next]_vars

\* Two invocations that run interleaved
InitConc ==
    /\ invs = Inv
    /\ input \in [Inv -> ConcInputs]
    /\ pc = [i \in Inv |-> "init"]
    /\ InitLocals

SpecConc == InitConc /\ [][Next]_vars

----------------------------------------------------------------------------
(* normalize_tests and generate_summary called on their own                *)

\* The longest sequence of candidate lines, the longest run of one accepted
\* and of one rejected line, and the longest sequence of records
MaxLines == 3
MaxRepeat == 8
MaxTests == 5

\* The sequences of length at most n over the set S
RECURSIVE SeqsUpTo(_, _)
SeqsUpTo(S, n) ==
    IF n = 0 THEN {<<>>}
    ELSE SeqsUpTo(S, n - 1)
         \cup {Append(q, x) : q \in {r \in SeqsUpTo(S, n - 1) : Len(r) = n - 1}, x \in S}

\* k copies of x
RECURSIVE Copies(_, _)
Copies(x, k) == IF k = 0 THEN <<>> ELSE <<x>> \o Copies(x, k - 1)

\* The text of a decimal that is not negative: its digits, with a point
\* before the last dec of them
FormatValue(d) ==
    IF d.dec = 0 THEN IntText(d.num)
    ELSE IntText(d.num \div Pow10(d.dec)) \o <<".">>
         \o SubSeq(IntText(Pow10(d.dec) + (d.num % Pow10(d.dec))), 2, d.dec + 1)

\* The texts of a value in a line: that of the float, which always has a
\* point, and for a whole number also that of the int
ValueTexts(d) ==
    {[value |-> d, text |-> IF d.dec = 0 THEN FormatValue(d) \o <<".", "0">>
                            ELSE FormatValue(d)]}
    \cup (IF d.dec = 0 THEN {[value |-> d, text |-> FormatValue(d)]} ELSE {})

\* The line "{name} {value}{unit}" of a catalog entry
FormatLine(entry, value_text) ==
    entry.name \o <<" ">> \o value_text \o entry.unit

\* The values at and next to a bound b: b, and b one step and a tenth of a
\* step away, a step being one unit of the last decimal place of b
Probes(b) ==
    {Canonical([num |-> b.num * Pow10(sc - b.dec) + k, dec |-> sc]) :
        k \in {-1, 0, 1}, sc \in {b.dec, b.dec + 1}}

ProbeValues(entry) ==
    {v \in Probes(entry.low) \cup Probes(entry.high) : v.num >= 0}

\* The generated lines, each with the entry and the value it was made from
RoundTripsOf(entry) ==
    {[entry |-> entry, value |-> v.value, line |-> FormatLine(entry, v.text)] :
        v \in UNION {ValueTexts(x) : x \in ProbeValues(entry)}}

RoundTrips == UNION {RoundTripsOf(MEDICAL_TESTS[k]) : k \in 1..Len(MEDICAL_TESTS)}

\* Lines put together from a name, a separator, a value, a unit and a status
FieldNames == {<<"w", "b", "c">>, <<"W", "B", "C">>, <<"w", "b", "c", "c">>, <<"z", "z", "z">>, <<"b", "u", "m">>, <<"b", "u", "n">>}
FieldSeparators == {<<" ">>, <<":", " ">>}
FieldValues == {<<"5", "0", "0", "0">>, <<"1", "1", ",", "2", "0", "0">>, <<"1", ".", "2", ".", "3">>, <<"3", "o">>}
FieldUnits == {<<>>, <<" ", "/", "u", "L">>, <<"/", "u", "l">>, <<" ", "m", "g", "/", "d", "L">>, <<" ", "/", " ", "MICRO", "L">>, <<"/", "MU", "L">>}
FieldStatuses == {<<>>, <<" ", "(", "L", "o", "w", ")">>, <<"(", "h", "g", "h", ")">>, <<"(", "a", "b", "c", ")">>, <<" ", "(", "v", "e", "r", "y", " ", "h", "i", "g", "h", ")">>, <<"(", "L", "o", "w">>}

FieldLines ==
    {n \o p \o v \o u \o st :
        n \in FieldNames, p \in FieldSeparators, v \in FieldValues,
        u \in FieldUnits, st \in FieldStatuses}

\* An accepted line and a rejected line
LineAccepted == <<"w", "b", "c", " ", "5", "0", "0", "0">>
LineRejected == <<"z", "z", "z", " ", "5">>

\* The lines of the sequences: accepted with a derived status and with a
\* written one, rejected for the name and for the unit
CoreLines == {LineAccepted, <<"b", "u", "n", " ", "3", "0", " ", "m", "g", "/", "d", "L">>, <<"r", "b", "c", " ", "4", ".", "0", " ", "(", "h", "g", "h", ")">>, LineRejected, <<"w", "b", "c", " ", "5", "0", "0", "0", " ", "m", "g", "/", "d", "L">>}

\* Lines of one test with a status written: a value below, within and above
\* the bounds and one that is no number, and the phrases of the status map,
\* phrases in capitals, phrases that hold "high" or "low", and phrases that
\* are unknown
StatusValues == {<<"1", "0", "0">>, <<"5", "0", "0", "0">>, <<"2", "0", "0", "0", "0">>, <<"1", ".", "2", ".", "3">>}
StatusPhrases == {
    <<"h", "i", "g", "h">>,
    <<"h", "g", "h">>,
    <<"h">>,
    <<"l", "i", "g", "h">>,
    <<"l", "o", "w">>,
    <<"l">>,
    <<"l", "o", "h">>,
    <<"n", "o", "r", "m", "a", "l">>,
    <<"n">>,
    <<"n", "o", "r", "a", "m", "l">>,
    <<"H">>,
    <<"L", "o", "w">>,
    <<"N", "O", "R", "M", "A", "L">>,
    <<"v", "e", "r", "y", " ", "h", "i", "g", "h">>,
    <<"b", "e", "l", "o", "w", " ", "l", "o", "w">>,
    <<"l", "o", "w", " ", "n", "o", "t", " ", "h", "i", "g", "h">>,
    <<"h", "i", "g", "h", "l", "o", "w">>,
    <<"a", "b", "c">>,
    <<"n", "o", "r", "m">>,
    <<" ">>,
    <<"l", " ">>,
    <<" ", "l", "o", "w", " ">>,
    <<"2">>}
StatusLines ==
    {<<"w", "b", "c", " ">> \o v \o <<" ", "(">> \o ph \o <<")">> :
        v \in StatusValues, ph \in StatusPhrases}

\* Lines of three tests with a unit written: the units of the catalog as
\* they are, in capitals, with spaces, with the micro sign and with the
\* small mu, and units that are cut short or of another test
UnitNames == {<<"w", "b", "c">>, <<"r", "b", "c">>, <<"b", "u", "n">>}
UnitTokens == {
    <<"/", "u", "L">>,
    <<"/", "U", "L">>,
    <<"/", " ", "u", " ", "l">>,
    <<"/", "MICRO", "L">>,
    <<"/", "MICRO", "l">>,
    <<"/", " ", "MICRO", " ", "L">>,
    <<"/", "MU", "L">>,
    <<"MU", "l", "/", "u", "l">>,
    <<"u", "L">>,
    <<"m", "g", "/", "d", "L">>,
    <<"M", "G", "/", "D", "L">>,
    <<"m", "g", " ", "/", " ", "d", "l">>,
    <<"m", "g", "/", "d">>,
    <<"m", "i", "l", "l", "i", "o", "n", "/", "u", "L">>,
    <<"M", "i", "l", "l", "i", "o", "n", " ", "/", "MICRO", "l">>,
    <<"g", "/", "d", "L">>}
UnitLines ==
    {n \o <<" ", "5", " ">> \o u : n \in UnitNames, u \in UnitTokens}

NormalizeInputs ==
    {<<r.line>> : r \in RoundTrips}
    \cup {<<l>> : l \in FieldLines}
    \cup {<<l>> : l \in UnitLines}
    \cup {<<l>> : l \in StatusLines}
    \cup SeqsUpTo(CoreLines, MaxLines)
    \cup {Copies(LineAccepted, k) \o Copies(LineRejected, m) :
             k \in 0..MaxRepeat, m \in 0..MaxRepeat}

\* The records normalize_tests makes of two catalog entries
RecordOf(entry, status) ==
    [name |-> entry.name, value |-> entry.low, unit |-> entry.unit, status |-> status,
     ref_range |-> [low |-> entry.low, high |-> entry.high]]

SummaryRecords ==
    {RecordOf(MEDICAL_TESTS[2], st) : st \in {"low", "normal", "high"}}
    \cup {RecordOf(MEDICAL_TESTS[7], st) : st \in {"normal", "high"}}

SummaryInputs == SeqsUpTo(SummaryRecords, MaxTests)

\* normalize_tests(corrected_lines), called on its own
CallNormalizeTests(i) ==
    /\ pc[i] = "normalize_tests"
    /\ tests' = [tests EXCEPT ![i] = NormalizeTests(input[i].corrected_lines, catalog)]
    /\ pc' = [pc EXCEPT ![i] = "returned"]
    /\ UNCHANGED <<invs, input, text, lines, result, response, ran, catalog>>

InitNorm ==
    /\ invs = {1}
    /\ \E ls \in NormalizeInputs :
           input = [i \in Inv |-> IF i = 1 THEN [corrected_lines |-> ls] ELSE NoneRec]
    /\ pc = [Idle EXCEPT ![1] = "normalize_tests"]
    /\ InitLocals

NextNorm == \E i \in invs : CallNormalizeTests(i)

SpecNorm == InitNorm /\ [][NextNorm]_vars

\* generate_summary(normalized_tests), called on its own
CallGenerateSummary(i) ==
    /\ pc[i] = "generate_summary"
    /\ result' = [result EXCEPT ![i] = GenerateSummary(input[i].normalized_tests, catalog)]
    /\ pc' = [pc EXCEPT ![i] = "returned"]
    /\ UNCHANGED <<invs, input, text, lines, tests, response, ran, catalog>>

InitSummary ==
    /\ invs = {1}
    /\ \E ts \in SummaryInputs :
           input = [i \in Inv |-> IF i = 1 THEN [normalized_tests |-> ts] ELSE NoneRec]
    /\ pc = [Idle EXCEPT ![1] = "generate_summary"]
    /\ InitLocals

NextSummary == \E i \in invs : CallGenerateSummary(i)

SpecSummary == InitSummary /\ [][NextSummary]_vars

----------------------------------------------------------------------------
(* Properties of process_medical_report and of the endpoints, under Spec   *)

\* The invocation has returned
Terminal(i) == pc[i] \in {"done", "responded"}

\* The arguments of an invocation are those of another
SameArguments(a, b) ==
    /\ a.raw_text = b.raw_text /\ a.image_path = b.image_path
    /\ a.ocr_engine = b.ocr_engine /\ a.ocr = b.ocr /\ a.fault = b.fault

\* C1: every invocation of process_medical_report returns exactly one
\* result: it has a result exactly when it has returned, the result is
\* never replaced, its status is ok, unprocessed or error, it carries tests
\* and summary if and only if the status is ok, and reason if and only if
\* the status is not ok.
C1_ResultShape ==
    /\ [](\A i \in invs :
            /\ Terminal(i) <=> result[i] # NoneRec
            /\ result[i] # NoneRec =>
                 /\ "status" \in DOMAIN result[i]
                 /\ result[i].status \in {"ok", "unprocessed", "error"}
                 /\ ("tests" \in DOMAIN result[i]) <=> (result[i].status = "ok")
                 /\ ("summary" \in DOMAIN result[i]) <=> (result[i].status = "ok")
                 /\ ("reason" \in DOMAIN result[i]) <=> (result[i].status # "ok"))
    /\ [][\A i \in invs : result[i] # NoneRec => result'[i] = result[i]]_vars

C1_OkReturned ==
    \E i \in invs :
        /\ pc[i] = "done" /\ result[i] # NoneRec
        /\ result[i].status = "ok" /\ Len(result[i].tests) >= 1

\* C2: an invocation that entered the try block and raised no fault ends ok
\* exactly when normalization accepts at least one candidate: no candidate
\* gives unprocessed, candidates that are all rejected give unprocessed, and
\* one accepted candidate among rejected ones gives ok.
C2_OkIffAccepted ==
    \A i \in invs :
        (/\ Terminal(i) /\ "extract" \in ran[i]
         /\ text[i] # NonStr /\ input[i].fault.stage \notin ran[i])
        => LET candidates == ExtractTestLines(text[i])
               accepted == NormalizeTests(candidates, MEDICAL_TESTS).tests
           IN  /\ candidates = <<>> => result[i].status = "unprocessed"
               /\ (candidates # <<>> /\ accepted = <<>>) => result[i].status = "unprocessed"
               /\ accepted # <<>> => result[i].status = "ok"
               /\ result[i].status = "ok" <=> Len(accepted) >= 1

C2_PartialRejection ==
    \E i \in invs :
        /\ pc[i] = "done" /\ input[i].fault = NoFault /\ tests[i] # NoneRec
        /\ Len(tests[i].tests) >= 1 /\ Len(tests[i].tests) < Len(lines[i])
        /\ result[i].status = "ok"

\* The text extract_text_from_report gives process_medical_report for an
\* image with an engine
OcrText(i) == ExtractTextFromReport(input[i].ocr)
WithImageAndEngine(i) == input[i].image_path = ImagePath /\ input[i].ocr_engine

\* C3 as stated: a text from the OCR that is null or empty (whitespace only)
\* ends the pipeline unprocessed, and no later stage runs.
C3_NullOrBlankUnprocessed ==
    \A i \in invs :
        (/\ Terminal(i) /\ WithImageAndEngine(i)
         /\ (OcrText(i) = None \/ Strip(OcrText(i)) = <<>>))
        => result[i].status = "unprocessed" /\ ran[i] = {}

\* C3: a text from the OCR that is empty or whitespace only ends the
\* pipeline unprocessed with the reason that no text could be extracted, a
\* null text ends it in error with the reason that the image could not be
\* processed, and in both cases no later stage runs.
C3_BlankUnprocessedNullError ==
    \A i \in invs :
        (Terminal(i) /\ WithImageAndEngine(i))
        => /\ (OcrText(i) # None /\ Strip(OcrText(i)) = <<>>)
                => /\ result[i].status = "unprocessed"
                   /\ result[i].reason
                        = "OCR failed: No text could be extracted from the image."
                   /\ ran[i] = {} /\ lines[i] = <<>> /\ tests[i] = NoneRec
           /\ OcrText(i) = None
                => /\ result[i].status = "error"
                   /\ result[i].reason
                        = "Image file not found or could not be processed."
                   /\ ran[i] = {} /\ lines[i] = <<>> /\ tests[i] = NoneRec

C3_WhitespaceRead ==
    \E i \in invs :
        /\ pc[i] = "done" /\ WithImageAndEngine(i)
        /\ OcrText(i) # None /\ OcrText(i) # <<>> /\ Strip(OcrText(i)) = <<>>
        /\ result[i].status = "unprocessed"

\* C4: an invocation with neither a raw text (the empty string counts as
\* none) nor an image, or with an image and no OCR engine, ends in error
\* with a reason, and extraction, normalization and summarization do not
\* run.
C4_InvalidInputError ==
    \A i \in invs :
        (/\ Terminal(i)
         /\ \/ input[i].image_path \in {None, <<>>} /\ input[i].raw_text \in {None, <<>>}
            \/ input[i].image_path = ImagePath /\ ~input[i].ocr_engine)
        => /\ result[i].status = "error"
           /\ "reason" \in DOMAIN result[i] /\ result[i].reason # ""
           /\ ran[i] = {} /\ lines[i] = <<>> /\ tests[i] = NoneRec

C4_EmptyTextNoImage ==
    \E i \in invs :
        /\ pc[i] = "done" /\ input[i].raw_text = <<>> /\ input[i].image_path = None
        /\ result[i].status = "error"

\* C5: an exception raised while extracting, normalizing or summarizing does
\* not escape: the invocation has returned, with the status error and the
\* exception's message as the reason.
C5_FaultGivesError ==
    \A i \in invs : \A stage \in ran[i] :
        Raised(i, stage) # ""
        => /\ Terminal(i)
           /\ result[i].status = "error"
           /\ result[i].reason = Raised(i, stage)

C5_NormalizeRaised ==
    \E i \in invs :
        /\ pc[i] = "done" /\ "normalize" \in ran[i]
        /\ input[i].fault.stage = "normalize" /\ lines[i] # <<>>
        /\ result[i].status = "error"

\* C10: both endpoints answer a result that is unprocessed with 400 and a
\* result that is error with 500, neither with a body, and answer 200 with
\* the result as the body for a result that is ok and for no other.
C10_StatusCodes ==
    \A i \in invs :
        pc[i] = "responded"
        => /\ input[i].via \in {"text_endpoint", "image_endpoint"}
           /\ result[i].status = "unprocessed"
                => response[i].status_code = 400 /\ "body" \notin DOMAIN response[i]
           /\ result[i].status = "error"
                => response[i].status_code = 500 /\ "body" \notin DOMAIN response[i]
           /\ result[i].status = "ok"
                => response[i].status_code = 200 /\ response[i].body = result[i]
           /\ response[i].status_code = 200 => result[i].status = "ok"

C10_TextUnprocessed ==
    \E i \in invs :
        /\ pc[i] = "responded" /\ input[i].via = "text_endpoint"
        /\ result[i].status = "unprocessed" /\ response[i].status_code = 400

----------------------------------------------------------------------------
(* Properties of normalize_tests, under SpecNorm                           *)

\* C6 as stated: the normalization confidence is in [0.0, 1.0] and is 0.0
\* exactly when there is no candidate line.
C6_ZeroIffNoCandidates ==
    \A i \in invs :
        pc[i] = "returned"
        => /\ tests[i].normalization_confidence \in 0..100
           /\ tests[i].normalization_confidence = 0
                <=> Len(input[i].corrected_lines) = 0

\* C6: the normalization confidence is in [0.0, 1.0], it is the share of
\* accepted records among the candidate lines to within half a hundredth,
\* it is 0.0 whenever there is no candidate line or no candidate is
\* accepted, and a confidence that is not 0.0 means that a candidate was
\* accepted.
C6_ConfidenceIsShare ==
    \A i \in invs :
        pc[i] = "returned"
        => LET c == tests[i].normalization_confidence
               accepted == Len(tests[i].tests)
               candidates == Len(input[i].corrected_lines)
           IN  /\ c \in 0..100
               /\ accepted <= candidates
               /\ (candidates = 0 \/ accepted = 0) => c = 0
               /\ c # 0 => accepted >= 1 /\ candidates >= 1
               /\ 2 * (c * candidates - 100 * accepted) <= candidates
               /\ 2 * (100 * accepted - c * candidates) <= candidates

C6_AllRejected ==
    \E i \in invs :
        /\ pc[i] = "returned"
        /\ Len(input[i].corrected_lines) >= 1 /\ tests[i].tests = <<>>
        /\ tests[i].normalization_confidence = 0

\* The line has no status for the pattern of normalize_tests
NoStatusToken(line) ==
    MatchGroups(line) = NoneRec \/ MatchGroups(line).g4 = None

\* The status that the bounds of a record give its value
StatusFromBounds(r) ==
    /\ r.status = "low" <=> r.value.num * Pow10(r.ref_range.low.dec)
                              < r.ref_range.low.num * Pow10(r.value.dec)
    /\ r.status = "high" <=> r.value.num * Pow10(r.ref_range.high.dec)
                               > r.ref_range.high.num * Pow10(r.value.dec)
    /\ r.status \in {"low", "high", "normal"}

\* C7: when no candidate line has a status token, every accepted record has
\* the status low if and only if its value is below the lower bound, high if
\* and only if its value is above the upper bound, and normal otherwise; and
\* a line "{name} {value}{unit}" made from a catalog entry is accepted as
\* that entry, with that value and with the status the entry's bounds give.
C7_DerivedStatus ==
    \A i \in invs :
        pc[i] = "returned"
        => LET ls == input[i].corrected_lines
               rs == tests[i].tests
           IN  /\ (\A k \in 1..Len(ls) : NoStatusToken(ls[k]))
                    => \A k \in 1..Len(rs) : StatusFromBounds(rs[k])
               /\ \A rt \in RoundTrips :
                      ls = <<rt.line>>
                      => /\ Len(rs) = 1
                         /\ rs[1].name = rt.entry.name
                         /\ rs[1].value = rt.value
                         /\ rs[1].ref_range
                              = [low |-> rt.entry.low, high |-> rt.entry.high]
                         /\ StatusFromBounds(rs[1])

C7_EqualToUpperBound ==
    \E i \in invs : \E rt \in RoundTrips :
        /\ pc[i] = "returned" /\ input[i].corrected_lines = <<rt.line>>
        /\ rt.value = Canonical(rt.entry.high)
        /\ Len(tests[i].tests) = 1 /\ tests[i].tests[1].status = "normal"

----------------------------------------------------------------------------
(* Properties of generate_summary, under SpecSummary                       *)

\* The records whose status is not normal, in the order of the records
Abnormal(normalized_tests) ==
    SelectSeq(normalized_tests, LAMBDA t : t.status # "normal")

\* The summary point of a record
Point(t) == (IF t.status = "high" THEN <<"h", "i", "g", "h">> ELSE <<"l", "o", "w">>)
            \o <<" ">> \o t.name

\* C8: with n the number of records whose status is not normal, taken in
\* the order of the records, the summary is the fixed sentence for n = 0,
\* "Your report shows X." for n = 1, "Your report shows X and Y." for n = 2,
\* and for n above 3 the first 3 points and then "and K more abnormal
\* results." with K = n - 3; a record whose status is normal adds no point.
C8_SentenceForm ==
    \A i \in invs :
        pc[i] = "returned"
        => LET ab == Abnormal(input[i].normalized_tests)
               n == Len(ab)
               summary == result[i].summary
               shows == <<"Y", "o", "u", "r", " ", "r", "e", "p", "o", "r",
                          "t", " ", "s", "h", "o", "w", "s", " ">>
           IN  /\ n = 0 => summary = AllNormalSentence
               /\ n = 1 => summary = shows \o Point(ab[1]) \o <<".">>
               /\ n = 2 => summary = shows \o Point(ab[1])
                                      \o <<" ", "a", "n", "d", " ">>
                                      \o Point(ab[2]) \o <<".">>
               /\ n > 3 => summary = shows \o Point(ab[1]) \o <<",", " ">>
                                      \o Point(ab[2]) \o <<",", " ">> \o Point(ab[3])
                                      \o <<",", " ", "a", "n", "d", " ">>
                                      \o IntText(n - 3)
                                      \o <<" ", "m", "o", "r", "e", " ", "a", "b",
                                           "n", "o", "r", "m", "a", "l", " ", "r",
                                           "e", "s", "u", "l", "t", "s", ".">>

C8_MoreThanLimit ==
    \E i \in invs :
        /\ pc[i] = "returned"
        /\ Len(Abnormal(input[i].normalized_tests)) = 4
        /\ Len(input[i].normalized_tests) = 5
        /\ input[i].normalized_tests[2].status = "normal"

----------------------------------------------------------------------------
(* Properties of interleaved invocations, under SpecConc                   *)

\* C9: the result of an invocation is a function of its arguments: two
\* invocations with the same arguments that have returned have the same
\* result, however their steps interleave; the catalog stays as loaded; and
\* what each stage of an invocation left is what the stage makes of that
\* invocation's own input to it.
C9_Deterministic ==
    /\ catalog = MEDICAL_TESTS
    /\ \A i \in invs : \A j \in invs :
           (Terminal(i) /\ Terminal(j) /\ SameArguments(input[i], input[j]))
           => result[i] = result[j]
    /\ \A i \in invs :
           /\ ("extract" \in ran[i] /\ Raised(i, "extract") = "")
                => lines[i] = ExtractTestLines(text[i])
           /\ ("normalize" \in ran[i] /\ Raised(i, "normalize") = "")
                => tests[i] = NormalizeTests(lines[i], MEDICAL_TESTS)
           /\ (Terminal(i) /\ "summarize" \in ran[i] /\ Raised(i, "summarize") = "")
                => result[i] = [tests |-> tests[i].tests, status |-> "ok",
                                summary |-> GenerateSummary(tests[i].tests,
                                                            MEDICAL_TESTS).summary]

C9_TwoEqualCalls ==
    \E i \in invs : \E j \in invs :
        /\ i # j /\ pc[i] = "done" /\ pc[j] = "done"
        /\ SameArguments(input[i], input[j])
        /\ result[i].status = "ok" /\ result[j].status = "ok"
        /\ Len(result[i].tests) >= 1

----------------------------------------------------------------------------
(* Properties of the loop of normalize_tests, under SpecNorm               *)

\* What the loop reads of a line: the catalog name that the name resolves
\* to, the unit and the status written, and the value parsed
ResolvedName(line) ==
    FindBestTestNameMatch(Strip(MatchGroups(line).g1), VALID_TEST_NAMES(MEDICAL_TESTS))
WrittenUnit(line) ==
    IF MatchGroups(line).g3 = None THEN None ELSE Strip(MatchGroups(line).g3)
WrittenStatus(line) == MatchGroups(line).g4
ParsedValue(line) ==
    ParseFloat(SelectSeq([k \in 1..Len(MatchGroups(line).g2) |->
                             IF MatchGroups(line).g2[k] \in {"o", "O"} THEN "0"
                             ELSE MatchGroups(line).g2[k]],
                         LAMBDA c : c # ","))

\* Name resolution, unit validation, value parsing and status resolution
\* all succeed for the line
AllSucceed(line) ==
    /\ MatchGroups(line) # NoneRec
    /\ ResolvedName(line) # None
    /\ UnitAccepted(WrittenUnit(line), CatalogGet(MEDICAL_TESTS, ResolvedName(line)))
    /\ ParsedValue(line) # NoneRec
    /\ DetermineStatus(WrittenStatus(line), ParsedValue(line),
                       CatalogGet(MEDICAL_TESTS, ResolvedName(line))) # "None"

\* The index of the j-th line that succeeds, succeeds being the function
\* from the indices of the lines to whether the line succeeds
KthSucceeding(succeeds, j) ==
    CHOOSE k \in DOMAIN succeeds :
        succeeds[k] /\ Cardinality({h \in 1..k : succeeds[h]}) = j

\* C11: the tests of normalize_tests are the order-preserving filter of the
\* candidate lines: there are as many records as lines for which name
\* resolution, unit validation, value parsing and status resolution all
\* succeed, the j-th record is the record of the j-th such line, with the
\* resolved name and the catalog's unit and bounds, and every record has
\* all five fields.
C11_OrderPreservingFilter ==
    \A i \in invs :
        pc[i] = "returned"
        => LET ls == input[i].corrected_lines
               rs == tests[i].tests
               succeeds == [k \in 1..Len(ls) |-> AllSucceed(ls[k])]
           IN  /\ Len(rs) = Cardinality({k \in 1..Len(ls) : succeeds[k]})
               /\ \A j \in 1..Len(rs) :
                      LET line == ls[KthSucceeding(succeeds, j)]
                          entry == CatalogGet(MEDICAL_TESTS, ResolvedName(line))
                      IN  /\ DOMAIN rs[j] = {"name", "value", "unit", "status", "ref_range"}
                          /\ rs[j].name = ResolvedName(line)
                          /\ rs[j].name = entry.name
                          /\ rs[j].value = ParsedValue(line)
                          /\ rs[j].unit = entry.unit
                          /\ rs[j].ref_range = [low |-> entry.low, high |-> entry.high]
                          /\ rs[j].status \in {"low", "normal", "high"}

C11_RejectedBetweenAccepted ==
    \E i \in invs :
        /\ pc[i] = "returned"
        /\ Len(input[i].corrected_lines) = 3
        /\ AllSucceed(input[i].corrected_lines[1])
        /\ ~AllSucceed(input[i].corrected_lines[2])
        /\ AllSucceed(input[i].corrected_lines[3])
        /\ Len(tests[i].tests) = 2
        /\ tests[i].tests[1].name # tests[i].tests[2].name

----------------------------------------------------------------------------
(* Properties of the status that is written, under SpecNorm                *)

\* The status a written phrase stands for, whatever the value: that of the
\* table of abbreviations and misspellings, else high for a phrase that
\* holds "high", else low for one that holds "low", else "reject"
TokenStatus(token) ==
    LET t == ToLower(token)
    IN  IF t \in {<<"h", "i", "g", "h">>, <<"h", "g", "h">>, <<"h">>, <<"l", "i", "g", "h">>} THEN "high"
        ELSE IF t \in {<<"l", "o", "w">>, <<"l">>, <<"l", "o", "h">>} THEN "low"
        ELSE IF t \in {<<"n", "o", "r", "m", "a", "l">>, <<"n">>, <<"n", "o", "r", "a", "m", "l">>} THEN "normal"
        ELSE IF \E k \in 1..(Len(t) - 3) : SubSeq(t, k, k + 3) = <<"h", "i", "g", "h">> THEN "high"
        ELSE IF \E k \in 1..(Len(t) - 2) : SubSeq(t, k, k + 2) = <<"l", "o", "w">> THEN "low"
        ELSE "reject"

\* Name resolution, unit validation and value parsing succeed for the line
SucceedUpToStatus(line) ==
    /\ MatchGroups(line) # NoneRec
    /\ ResolvedName(line) # None
    /\ UnitAccepted(WrittenUnit(line), CatalogGet(MEDICAL_TESTS, ResolvedName(line)))
    /\ ParsedValue(line) # NoneRec

\* C12: for a line with a status written, the status of its record is the
\* one the written phrase stands for, whatever the value and the bounds: a
\* single line whose phrase is unknown gives no record, a single line whose
\* name, unit and value succeed and whose phrase is known gives one record
\* with the phrase's status, and in any input the record of a line with a
\* status written has the phrase's status.
C12_WrittenStatusDecides ==
    \A i \in invs :
        pc[i] = "returned"
        => LET ls == input[i].corrected_lines
               rs == tests[i].tests
               succeeds == [k \in 1..Len(ls) |-> AllSucceed(ls[k])]
           IN  /\ (/\ Len(ls) = 1 /\ MatchGroups(ls[1]) # NoneRec
                   /\ WrittenStatus(ls[1]) # None)
                    => /\ TokenStatus(WrittenStatus(ls[1])) = "reject" => rs = <<>>
                       /\ (/\ SucceedUpToStatus(ls[1])
                           /\ TokenStatus(WrittenStatus(ls[1])) # "reject")
                            => Len(rs) = 1
                       /\ rs # <<>>
                            => rs[1].status = TokenStatus(WrittenStatus(ls[1]))
               /\ Len(rs) = Cardinality({k \in 1..Len(ls) : succeeds[k]})
                    => \A j \in 1..Len(rs) :
                           LET line == ls[KthSucceeding(succeeds, j)]
                           IN  WrittenStatus(line) # None
                               => rs[j].status = TokenStatus(WrittenStatus(line))

C12_LowWrittenOnHighValue ==
    \E i \in invs :
        /\ pc[i] = "returned" /\ Len(input[i].corrected_lines) = 1
        /\ MatchGroups(input[i].corrected_lines[1]) # NoneRec
        /\ WrittenStatus(input[i].corrected_lines[1]) # None
        /\ TokenStatus(WrittenStatus(input[i].corrected_lines[1])) = "low"
        /\ Len(tests[i].tests) = 1
        /\ tests[i].tests[1].status = "low"
        /\ tests[i].tests[1].value.num * Pow10(tests[i].tests[1].ref_range.high.dec)
             > tests[i].tests[1].ref_range.high.num * Pow10(tests[i].tests[1].value.dec)

----------------------------------------------------------------------------
(* Properties of the unit that is written, under SpecNorm                  *)

\* A unit in lowercase, without its whitespace, and with the micro sign for
\* the u of every "ul"
UnifiedUnit(unit) ==
    LET t == SelectSeq([k \in 1..Len(unit) |-> LowerChar(unit[k])],
                       LAMBDA c : c \notin {" ", "TAB", "NL"})
    IN  [k \in 1..Len(t) |->
            IF t[k] = "u" /\ k < Len(t) /\ t[k + 1] = "l"
            THEN "MICRO" ELSE t[k]]

\* The value parses and the status resolves for the line
SucceedAfterUnit(line) ==
    /\ ParsedValue(line) # NoneRec
    /\ WrittenStatus(line) = None \/ TokenStatus(WrittenStatus(line)) # "reject"

\* C13: for a single line whose name resolves, a line with no unit written
\* is not dropped for its unit; a line with a unit written is dropped
\* whole when the unit and the catalog's unit differ after both are put in
\* lowercase, without whitespace and with "ul" written with the micro sign,
\* and is not dropped for its unit when they are equal; the record carries
\* the catalog's unit.
C13_UnitValidation ==
    \A i \in invs :
        (/\ pc[i] = "returned" /\ Len(input[i].corrected_lines) = 1
         /\ MatchGroups(input[i].corrected_lines[1]) # NoneRec
         /\ ResolvedName(input[i].corrected_lines[1]) # None)
        => LET line == input[i].corrected_lines[1]
               rs == tests[i].tests
               entry == CatalogGet(MEDICAL_TESTS, ResolvedName(line))
               written == WrittenUnit(line) \notin {None, <<>>}
               equal == UnifiedUnit(WrittenUnit(line)) = UnifiedUnit(entry.unit)
           IN  /\ (~written /\ SucceedAfterUnit(line)) => Len(rs) = 1
               /\ (written /\ equal /\ SucceedAfterUnit(line)) => Len(rs) = 1
               /\ (written /\ ~equal) => rs = <<>>
               /\ rs # <<>> => rs[1].unit = entry.unit

C13_MicroSignAccepted ==
    \E i \in invs :
        /\ pc[i] = "returned" /\ Len(input[i].corrected_lines) = 1
        /\ MatchGroups(input[i].corrected_lines[1]) # NoneRec
        /\ WrittenUnit(input[i].corrected_lines[1]) \notin {None, <<>>}
        /\ \E k \in 1..Len(WrittenUnit(input[i].corrected_lines[1])) :
               WrittenUnit(input[i].corrected_lines[1])[k] = "MICRO"
        /\ Len(tests[i].tests) = 1
        /\ tests[i].tests[1].unit = <<"/", "u", "L">>

====
